---- MODULE Spec2Model ----
(***************************************************************************)
(* Robotic arm simulator: the two controller pages of the repository       *)
(* (src/unnamed/part_000, the single-block page with startAutoSequence,    *)
(* and src/unnamed/part_001, the multi-block page with modes, teach and    *)
(* replay) and the solver src/utils/kinematics.ts.                         *)
(*                                                                         *)
(* Numbers are fixed point.  Lengths are in 1/Unit scene units, angles and *)
(* cosines in 1/AngleScale, the frame time delta in 1/DeltaDen seconds.    *)
(* NaN and Infinity are the two non-numeric results a JavaScript           *)
(* computation of the program can store.                                   *)
(***************************************************************************)
EXTENDS Integers, Sequences, FiniteSets, TLC

\* ------------------------------------------------------------------ scales
Unit == 3 * 100
AngleScale == 10 * 1000
DeltaDen == 6 * 100
NaN == 2000 * 1000 * 1000
Infinity == 2000 * 1000 * 1000 + 1
PI == 31416
HalfPI == PI \div 2

\* ------------------------------------------------------------------ bounds
MaxFrames == 6
MaxCommands == 4
MaxWaypoints == 3
MaxResets == 1
MaxRunFrames == 260
CommandWindow == 2
MaxReplayFrames == 120
MaxFairFrames == 150
LegFrames == 48
MaxTeachCommands == 5
MaxTeachFrames == 3

\* ------------------------------------------------------------- arithmetic
Abs(n) == IF n < 0 THEN -n ELSE n

\* n / d rounded to the nearest integer, d > 0
RoundDiv(n, d) == (n + d \div 2) \div d

\* n / d rounded toward zero, d > 0
TruncDiv(n, d) == IF n >= 0 THEN n \div d ELSE -((-n) \div d)

RECURSIVE Newton(_, _)
Newton(n, x) ==
    IF (x + n \div x) \div 2 >= x THEN x ELSE Newton(n, (x + n \div x) \div 2)

\* floor of the square root (Math.sqrt), n >= 0: Newton's iteration from above
ISqrt(n) ==
    IF n = 0 THEN 0
    ELSE Newton(n, IF n < 100 THEN 10
                   ELSE IF n < 10000 THEN 100
                   ELSE IF n < 1000000 THEN 1000
                   ELSE IF n < 100000000 THEN 10000
                   ELSE 46340)

\* Math.sqrt rounded to the nearest unit
Sqrt(n) == IF n - ISqrt(n) * ISqrt(n) > ISqrt(n) THEN ISqrt(n) + 1 ELSE ISqrt(n)

\* x^2 in 1/AngleScale for an angle a in 1/AngleScale
Sq(a) == (a * a) \div AngleScale

\* cos on [0, HalfPI] by its Taylor series to the tenth power in Horner's
\* form, argument and result in 1/AngleScale
CosSmall(a) ==
    AngleScale
    - (Sq(a) * (AngleScale
       - (Sq(a) * (AngleScale
          - (Sq(a) * (AngleScale
             - (Sq(a) * (AngleScale - Sq(a) \div 90)) \div (56 * AngleScale)))
            \div (30 * AngleScale)))
         \div (12 * AngleScale)))
      \div (2 * AngleScale)

\* |a| reduced to [0, PI] by the period and the symmetry of cos
Fold(a) ==
    IF Abs(a) <= PI THEN Abs(a)
    ELSE IF (Abs(a) % (2 * PI)) > PI THEN 2 * PI - (Abs(a) % (2 * PI))
    ELSE Abs(a) % (2 * PI)

\* Math.cos
Cos(a) ==
    IF a = NaN THEN NaN
    ELSE IF Fold(a) <= HalfPI THEN CosSmall(Fold(a))
    ELSE -CosSmall(PI - Fold(a))

\* acos on [0, 1]: sqrt(1 - c) times a cubic (Abramowitz and Stegun 4.4.45)
AcosSmall(c) ==
    (Sqrt((AngleScale - c) * AngleScale)
     * (15707 - (c * (2121 - (c * (743 - (187 * c) \div AngleScale)) \div AngleScale))
                \div AngleScale))
    \div AngleScale

\* Math.acos of c / AngleScale: NaN outside [-1, 1]
Acos(c) ==
    IF c = NaN \/ c = Infinity \/ c > AngleScale \/ c < -AngleScale THEN NaN
    ELSE IF c < 0 THEN PI - AcosSmall(-c)
    ELSE AcosSmall(c)

\* Math.atan2(a, b): the angle of the point (b, a); atan2(0, 0) = 0
Atan2(a, b) ==
    IF a = 0 /\ b = 0 THEN 0
    ELSE LET len == Sqrt(100 * (a * a + b * b))
             ang == Acos(RoundDiv(10 * b * AngleScale, len))
         IN IF a >= 0 THEN ang ELSE -ang

\* JavaScript + and - on numbers that may be NaN
Add(a, b) == IF a = NaN \/ b = NaN THEN NaN ELSE a + b
Sub(a, b) == IF a = NaN \/ b = NaN THEN NaN ELSE a - b

\* ---------------------------------------------------------------- vectors
Vec(x, y, z) == [x |-> x, y |-> y, z |-> z]

\* THREE.Vector3.distanceTo, squared
distanceSq(a, b) ==
    (a.x - b.x) * (a.x - b.x) + (a.y - b.y) * (a.y - b.y) + (a.z - b.z) * (a.z - b.z)

\* a.distanceTo(b) < d, decided on the squares
closerThan(a, b, d) == distanceSq(a, b) < d * d

\* ------------------------------------------------------------ kinematics
L1 == 1 * Unit
L2 == 3 * Unit
L3 == (5 * Unit) \div 2

Null == [null |-> TRUE]

\* the squared distance h^2 from the shoulder pivot (0, L1, 0) to the target
hSq(x, y, z) == x * x + z * z + (y - L1) * (y - L1)

\* (L2^2 + h^2 - L3^2) / (2 L2 h), in 1/AngleScale; a division by h = 0
\* gives Infinity (the numerator is positive)
cosPhi1(x, y, z) ==
    LET h10 == Sqrt(100 * hSq(x, y, z))
    IN IF hSq(x, y, z) = 0 THEN Infinity
       ELSE RoundDiv(((L2 * L2 + hSq(x, y, z) - L3 * L3) \div 3) * 1000, 6 * h10)

\* (L2^2 + L3^2 - h^2) / (2 L2 L3), in 1/AngleScale
cosPhi3(x, y, z) ==
    RoundDiv(((L2 * L2 + L3 * L3 - hSq(x, y, z)) \div 9) * 10, 150)

\* a variant that also refuses targets at exactly L2 + L3
unreachable_atLimit(x, y, z) == hSq(x, y, z) >= (L2 + L3) * (L2 + L3)

\* h > L2 + L3, decided on the squares
unreachable(x, y, z) == hSq(x, y, z) > (L2 + L3) * (L2 + L3)

solveIK(x, y, z) ==
    IF unreachable(x, y, z) THEN Null
    ELSE LET theta1 == Atan2(x, z)
             r      == Sqrt(x * x + z * z)
             dy     == y - L1
             phi1   == Acos(cosPhi1(x, y, z))
             phi2   == Atan2(dy, r)
             theta2 == Sub(HalfPI, Add(phi1, phi2))
             phi3   == Acos(cosPhi3(x, y, z))
             theta3 == Sub(PI, phi3)
         IN [base |-> theta1, shoulder |-> theta2, elbow |-> theta3]


\* Math.sin
Sin(a) == IF a = NaN THEN NaN ELSE Cos(a - HalfPI)

\* the position of the end effector in RobotArm's group hierarchy: the base
\* group turns about Y by base; the shoulder group sits at baseHeight and turns
\* about X by shoulder, the upper arm running along its Y axis; the elbow group
\* sits at upperArmLength and turns about X by elbow, the forearm running along
\* its Y axis to the end effector at forearmLength
forward(angles) ==
    IF angles.base = NaN \/ angles.shoulder = NaN \/ angles.elbow = NaN
    THEN Vec(NaN, NaN, NaN)
    ELSE LET fore   == angles.shoulder + angles.elbow
             reach  == TruncDiv(L2 * Sin(angles.shoulder) + L3 * Sin(fore), AngleScale)
             height == L1 + TruncDiv(L2 * Cos(angles.shoulder) + L3 * Cos(fore), AngleScale)
         IN Vec(TruncDiv(reach * Sin(angles.base), AngleScale),
                height,
                TruncDiv(reach * Cos(angles.base), AngleScale))

\* ------------------------------------------------------------------ config
\* a variant in which both blocks carry the same id
INITIAL_BLOCKS_sameId ==
    << [id |-> 1, initialPos |-> Vec(4 * Unit, Unit \div 2, 4 * Unit)],
       [id |-> 1, initialPos |-> Vec(4 * Unit, Unit \div 2, -2 * Unit)] >>

INITIAL_BLOCKS ==
    << [id |-> 1, initialPos |-> Vec(4 * Unit, Unit \div 2, 4 * Unit)],
       [id |-> 2, initialPos |-> Vec(4 * Unit, Unit \div 2, -2 * Unit)] >>

Blocks == DOMAIN INITIAL_BLOCKS

\* the Block components each page renders
BlocksOf(pg) == IF pg = "part_000" THEN {1} ELSE Blocks

InitialTarget == Vec(2 * Unit, 2 * Unit, 2 * Unit)
ZeroAngles == [base |-> 0, shoulder |-> 0, elbow |-> 0]

\* a variant with twice the arrival threshold
threshold_wide == Unit \div 5
threshold == Unit \div 10
captureRadius == (3 * Unit) \div 2
floorY == Unit \div 2
gravity == Unit \div 50
gripOffset == (3 * Unit) \div 4
payload == (3 * AngleScale) \div 2
TelemetryCapacity == 40
TelemetryCapacity0 == 50
SampleEvery == 5
targetBlockIdForAuto == 1

\* the autonomous step length 6 * delta and the replay step length 4 * delta
autoSpeed(delta) == (6 * delta * Unit) \div DeltaDen
\* a variant in which replay does not move the Target
replaySpeed_stalled(delta) == 0
replaySpeed(delta) == (4 * delta * Unit) \div DeltaDen

\* the frame times of the render loop: 1/60 s
Deltas == {DeltaDen \div 60}

\* the points the operator drags the target to: beside block 1 (out of the
\* arm's reach), beside block 2 (within reach), and the hover point above
\* block 1
ManualTargets ==
    { Vec(4 * Unit, Unit, 4 * Unit),
      Vec(4 * Unit, Unit, -2 * Unit),
      Vec(4 * Unit, (5 * Unit) \div 2, 4 * Unit) }

Pages == {"part_000", "part_001"}

\* ------------------------------------------------------------------- state
VARIABLES
    page,             \* which controller page is mounted
    ikTarget, smoothAngles, desiredAngles, prevAngles,
    isGripping, attachedBlockId, hasBlock,
    mode, autoPhase, resetKey,
    waypoints, replayIndex, telemetryData, frameCount,
    blockPositions,   \* part_001: Map id -> position, filled by onPosUpdate
    blockPosRef,      \* part_000: the block position, filled by onRest
    position, velocityY,   \* the refs of each Block component
    lastOp,           \* the last handler the operator or the render loop invoked
    commands          \* how many commands the operator has given

vars == << page, ikTarget, smoothAngles, desiredAngles, prevAngles,
           isGripping, attachedBlockId, hasBlock, mode, autoPhase, resetKey,
           waypoints, replayIndex, telemetryData, frameCount,
           blockPositions, blockPosRef, position, velocityY, lastOp, commands >>

ctl == << ikTarget, smoothAngles, desiredAngles, prevAngles,
          isGripping, attachedBlockId, hasBlock, mode, autoPhase, resetKey,
          waypoints, replayIndex, telemetryData, frameCount,
          blockPositions, blockPosRef, position, velocityY >>

Init ==
    /\ page \in Pages
    /\ ikTarget = InitialTarget
    /\ smoothAngles = ZeroAngles
    /\ desiredAngles = ZeroAngles
    /\ prevAngles = ZeroAngles
    /\ isGripping = FALSE
    /\ attachedBlockId = 0
    /\ hasBlock = FALSE
    /\ mode = "MANUAL"
    /\ autoPhase = "IDLE"
    /\ resetKey = 0
    /\ waypoints = << >>
    /\ replayIndex = 0
    /\ telemetryData = << >>
    /\ frameCount = 0
    /\ blockPositions = << >>
    /\ blockPosRef = Vec(4 * Unit, Unit \div 2, 4 * Unit)
    /\ position = [i \in Blocks |-> INITIAL_BLOCKS[i].initialPos]
    /\ velocityY = [i \in Blocks |-> 0]
    /\ lastOp = "mount"
    /\ commands = 0

\* ------------------------------------------------------------ pure helpers
\* a variant that steps past the end value
lerp_overshoots(start, end, speedTenths) ==
    IF start = NaN \/ end = NaN THEN NaN
    ELSE start + TruncDiv((end - start) * (speedTenths + 10), 10)

\* start + (end - start) * speed, the speed in tenths
lerp(start, end, speedTenths) ==
    IF start = NaN \/ end = NaN THEN NaN
    ELSE start + TruncDiv((end - start) * speedTenths, 10)

lerpAngles(from, to) ==
    [base     |-> lerp(from.base, to.base, 1),
     shoulder |-> lerp(from.shoulder, to.shoulder, 1),
     elbow    |-> lerp(from.elbow, to.elbow, 1)]

\* Math.abs((now - before) / delta), in 1/AngleScale rad/s
shoulderVelocity(now, before, delta) ==
    IF now = NaN \/ before = NaN THEN NaN
    ELSE IF delta = 0 THEN (IF now = before THEN NaN ELSE Infinity)
    ELSE (Abs(now - before) * DeltaDen) \div delta

\* Math.abs(Math.cos(shoulder) + (carrying ? 1.5 : 0))
motorTorque(shoulder, carrying) ==
    IF shoulder = NaN THEN NaN
    ELSE Abs(Cos(shoulder) + (IF carrying THEN payload ELSE 0))

\* a variant that samples on every frame
sampled_always(count) == TRUE

\* frameCount.current % 5 === 0
sampled(count) == count % SampleEvery = 0

\* a variant that drops the newest sample of a full history
pushSample_dropsNewest(prev, sample, capacity) ==
    LET newData == Append(prev, sample)
    IN IF Len(newData) > capacity THEN prev ELSE newData

\* newData = [...prev, sample]; if (newData.length > capacity) newData.shift()
pushSample(prev, sample, capacity) ==
    LET newData == Append(prev, sample)
    IN IF Len(newData) > capacity THEN Tail(newData) ELSE newData

\* the target after one constant-velocity step toward dest
moveTowards(from, dest, speed) ==
    LET len10 == Sqrt(100 * distanceSq(dest, from))
    IN IF len10 = 0 THEN from
       ELSE Vec(from.x + RoundDiv((dest.x - from.x) * speed * 10, len10),
                from.y + RoundDiv((dest.y - from.y) * speed * 10, len10),
                from.z + RoundDiv((dest.z - from.z) * speed * 10, len10))

\* a variant that zeroes the command when the solver returns null
solutionOr_zeroes(newPos, held) ==
    LET solution == solveIK(newPos.x, newPos.y, newPos.z)
    IN IF solution = Null THEN ZeroAngles ELSE solution

\* desiredAngles after handleTargetMove(newPos)
solutionOr(newPos, held) ==
    LET solution == solveIK(newPos.x, newPos.y, newPos.z)
    IN IF solution = Null THEN held ELSE solution

\* a variant without the floor collision
blockStep_noFloor(pos, vel, isAttached, targetPosition) ==
    IF isAttached THEN [pos |-> targetPosition, vel |-> 0]
    ELSE IF pos.y > floorY
         THEN [pos |-> [pos EXCEPT !.y = pos.y + vel - gravity], vel |-> vel - gravity]
         ELSE [pos |-> pos, vel |-> vel]

\* one frame of a Block component
blockStep(pos, vel, isAttached, targetPosition) ==
    IF isAttached THEN [pos |-> targetPosition, vel |-> 0]
    ELSE LET falling == pos.y > floorY
             v1 == IF falling THEN vel - gravity ELSE vel
             y1 == IF falling THEN pos.y + v1 ELSE pos.y
         IN IF y1 <= floorY
            THEN [pos |-> [pos EXCEPT !.y = floorY], vel |-> 0]
            ELSE [pos |-> [pos EXCEPT !.y = y1], vel |-> v1]

\* a variant that never closes the gripper
gripAfter_opens(grip, current) == FALSE

\* a variant that closes the gripper in every phase
gripAfter_closes(grip, current) == TRUE

\* setIsGripping(true) in DESCEND, setIsGripping(false) in LOWER_TO_DROP
gripAfter(grip, current) ==
    CASE grip = "attach" -> TRUE
      [] grip = "release" -> FALSE
      [] OTHER -> current

\* the switch over autoPhase: the sub-target, the next phase and what the
\* phase does to the gripper
phaseStep(phase, target, blockPos, zoneZ) ==
    LET at(dest) == closerThan(target, dest, threshold)
        res(dest, nxt, grip) == [dest |-> dest, next |-> nxt, grip |-> grip]
        hover == Vec(blockPos.x, blockPos.y + 2 * Unit, blockPos.z)
        lift  == Vec(blockPos.x, 3 * Unit, blockPos.z)
        zone  == Vec(-4 * Unit, 3 * Unit, zoneZ)
        drop  == Vec(-4 * Unit, (4 * Unit) \div 5, zoneZ)
        home  == Vec(0, 3 * Unit, 0)
    IN CASE phase = "APPROACH" ->
              res(hover, IF at(hover) THEN "DESCEND" ELSE phase, "keep")
         [] phase = "DESCEND" ->
              IF at(blockPos) THEN res(blockPos, "LIFT", "attach")
              ELSE res(blockPos, phase, "keep")
         [] phase = "LIFT" ->
              res(lift, IF at(lift) THEN "MOVE_TO_ZONE" ELSE phase, "keep")
         [] phase = "MOVE_TO_ZONE" ->
              res(zone, IF at(zone) THEN "LOWER_TO_DROP" ELSE phase, "keep")
         [] phase = "LOWER_TO_DROP" ->
              IF at(drop) THEN res(drop, "RETRACT", "release")
              ELSE res(drop, phase, "keep")
         [] phase = "RETRACT" ->
              res(home, IF at(home) THEN "IDLE" ELSE phase, "keep")
         [] OTHER -> res(Vec(0, 0, 0), "APPROACH", "keep")

\* ------------------------------------------------- part_001: render loop
\* blockPositions after every Block of the frame has called onPosUpdate
positionsAfter(map, blk) ==
    LET ids == {INITIAL_BLOCKS[i].id : i \in Blocks}
        last(id) == CHOOSE i \in Blocks :
                        /\ INITIAL_BLOCKS[i].id = id
                        /\ \A j \in Blocks : INITIAL_BLOCKS[j].id = id => j <= i
    IN [id \in (DOMAIN map) \cup ids |->
            IF id \in ids THEN blk[last(id)].pos ELSE map[id]]

\* the keys of blockPositions in insertion order
RECURSIVE keysFrom(_, _)
keysFrom(map, i) ==
    IF i > Len(INITIAL_BLOCKS) THEN << >>
    ELSE LET id == INITIAL_BLOCKS[i].id
             fresh == id \in DOMAIN map /\ \A j \in 1..(i - 1) : INITIAL_BLOCKS[j].id # id
         IN (IF fresh THEN << id >> ELSE << >>) \o keysFrom(map, i + 1)

RECURSIVE closestFrom(_, _, _, _, _)
closestFrom(target, map, keys, minDstSq, closestId) ==
    IF keys = << >> THEN closestId
    ELSE LET id == Head(keys)
             dstSq == distanceSq(target, map[id])
         IN IF dstSq < minDstSq
            THEN closestFrom(target, map, Tail(keys), dstSq, id)
            ELSE closestFrom(target, map, Tail(keys), minDstSq, closestId)

\* the id tryGrabClosest attaches, 0 (null) when no block is in reach
closestId(target, map) ==
    closestFrom(target, map, keysFrom(map, 1), captureRadius * captureRadius, 0)

\* a variant that never attaches
grabbed_nothing(target, map, attached) == attached

\* attachedBlockId after tryGrabClosest
grabbed(target, map, attached) ==
    IF closestId(target, map) # 0 THEN closestId(target, map) ELSE attached

\* what the AUTO PICK branch of the frame sets
autoPick(delta, map) ==
    LET targetBlockPos == IF targetBlockIdForAuto \in DOMAIN map
                          THEN map[targetBlockIdForAuto]
                          ELSE Vec(4 * Unit, Unit \div 2, 4 * Unit)
        st     == phaseStep(autoPhase, ikTarget, targetBlockPos, 2 * Unit)
        active == autoPhase # "IDLE"
        moved  == moveTowards(ikTarget, st.dest, autoSpeed(delta))
    IN [ikTarget        |-> IF active THEN moved ELSE ikTarget,
        desiredAngles   |-> IF active THEN solutionOr(moved, desiredAngles)
                            ELSE desiredAngles,
        isGripping      |-> gripAfter(st.grip, isGripping),
        attachedBlockId |-> CASE st.grip = "attach" -> targetBlockIdForAuto
                              [] st.grip = "release" -> 0
                              [] OTHER -> attachedBlockId,
        mode            |-> IF autoPhase = "RETRACT" /\ st.next = "IDLE"
                            THEN "MANUAL" ELSE mode,
        autoPhase       |-> IF active THEN st.next ELSE autoPhase,
        replayIndex     |-> replayIndex]

\* a variant that does not wrap around
nextIndex_unwrapped(i, k) == i + 1

\* a variant that skips a waypoint
nextIndex_skips(i, k) == (i + 2) % k

\* setReplayIndex(prev => (prev + 1) % waypoints.length)
nextIndex(i, k) == (i + 1) % k

\* what the REPLAY branch of the frame sets
replay(delta, map) ==
    IF Len(waypoints) = 0
    THEN [ikTarget |-> ikTarget, desiredAngles |-> desiredAngles,
          isGripping |-> isGripping, attachedBlockId |-> attachedBlockId,
          mode |-> "MANUAL", autoPhase |-> autoPhase, replayIndex |-> replayIndex]
    ELSE LET targetPoint == waypoints[replayIndex + 1]
             moved   == moveTowards(ikTarget, targetPoint.pos, replaySpeed(delta))
             arrived == closerThan(ikTarget, targetPoint.pos, threshold)
             toggles == arrived /\ targetPoint.grip # isGripping
         IN [ikTarget        |-> moved,
             desiredAngles   |-> solutionOr(moved, desiredAngles),
             isGripping      |-> IF toggles THEN targetPoint.grip ELSE isGripping,
             attachedBlockId |-> IF ~toggles THEN attachedBlockId
                                 ELSE IF targetPoint.grip
                                      THEN grabbed(ikTarget, map, attachedBlockId)
                                      ELSE 0,
             mode            |-> mode,
             autoPhase       |-> autoPhase,
             replayIndex     |-> IF arrived THEN nextIndex(replayIndex, Len(waypoints))
                                 ELSE replayIndex]

idle ==
    [ikTarget |-> ikTarget, desiredAngles |-> desiredAngles,
     isGripping |-> isGripping, attachedBlockId |-> attachedBlockId,
     mode |-> mode, autoPhase |-> autoPhase, replayIndex |-> replayIndex]

\* one frame of part_001: the Blocks' useFrame, then RobotController's
useFrame(delta) ==
    /\ page = "part_001"
    /\ LET targetPosition == Vec(ikTarget.x, ikTarget.y - gripOffset, ikTarget.z)
           blk == [i \in Blocks |->
                      blockStep(position[i], velocityY[i],
                                attachedBlockId = INITIAL_BLOCKS[i].id, targetPosition)]
           map == positionsAfter(blockPositions, blk)
           newAngles == lerpAngles(smoothAngles, desiredAngles)
           count == frameCount + 1
           sample == [time     |-> count,
                      velocity |-> shoulderVelocity(newAngles.shoulder,
                                                    prevAngles.shoulder, delta),
                      torque   |-> motorTorque(newAngles.shoulder, attachedBlockId # 0)]
           set == CASE mode = "AUTO_PICK" -> autoPick(delta, map)
                    [] mode = "REPLAY" -> replay(delta, map)
                    [] OTHER -> idle
       IN /\ position' = [i \in Blocks |-> blk[i].pos]
          /\ velocityY' = [i \in Blocks |-> blk[i].vel]
          /\ blockPositions' = map
          /\ smoothAngles' = newAngles
          /\ prevAngles' = newAngles
          /\ frameCount' = count
          /\ telemetryData' = IF sampled(count)
                              THEN pushSample(telemetryData, sample, TelemetryCapacity)
                              ELSE telemetryData
          /\ ikTarget' = set.ikTarget
          /\ desiredAngles' = set.desiredAngles
          /\ isGripping' = set.isGripping
          /\ attachedBlockId' = set.attachedBlockId
          /\ mode' = set.mode
          /\ autoPhase' = set.autoPhase
          /\ replayIndex' = set.replayIndex
    /\ lastOp' = "useFrame"
    /\ UNCHANGED commands
    /\ UNCHANGED << page, hasBlock, resetKey, waypoints, blockPosRef >>

\* a variant that releases whenever the gripper is closed
holding_byGrip(carrying, gripping) == gripping

\* if (attachedBlockId) ... / if (hasBlock) ...: the gripper button releases
\* when a block is carried and grabs otherwise
holding(carrying, gripping) == carrying

\* a variant in which the REC button is never disabled
recDisabled_never == FALSE

\* the REC button: disabled={mode !== 'MANUAL'}
recDisabled == mode # "MANUAL"

\* a variant that puts the new waypoint first
recorded_first(prev, pos, grip) == << [pos |-> pos, grip |-> grip] >> \o prev

\* setWaypoints(prev => [...prev, { pos: ikTarget.clone(), grip: isGripping }])
recorded(prev, pos, grip) == Append(prev, [pos |-> pos, grip |-> grip])

\* a variant in which TargetControl is always rendered
targetControlShown_always == TRUE

\* whether TargetControl is rendered: in MANUAL mode on part_001, while
\* autoPhase is IDLE on part_000
targetControlShown ==
    IF page = "part_000" THEN autoPhase = "IDLE" ELSE mode = "MANUAL"

\* ---------------------------------------------- part_001: operator commands
\* TargetControl is rendered in MANUAL mode only
handleTargetMove(newPos) ==
    /\ page = "part_001"
    /\ commands' = commands + 1
    /\ lastOp' = "handleTargetMove"
    /\ IF targetControlShown
       THEN /\ ikTarget' = newPos
            /\ desiredAngles' = solutionOr(newPos, desiredAngles)
       ELSE UNCHANGED << ikTarget, desiredAngles >>
    /\ UNCHANGED << page, smoothAngles, prevAngles, isGripping, attachedBlockId,
                    hasBlock, mode, autoPhase, resetKey, waypoints, replayIndex,
                    telemetryData, frameCount, blockPositions, blockPosRef,
                    position, velocityY >>

toggleGripper ==
    /\ page = "part_001"
    /\ commands' = commands + 1
    /\ lastOp' = "toggleGripper"
    /\ IF holding(attachedBlockId # 0, isGripping)
       THEN /\ attachedBlockId' = 0
            /\ isGripping' = FALSE
       ELSE /\ isGripping' = TRUE
            /\ attachedBlockId' = grabbed(ikTarget, blockPositions, attachedBlockId)
    /\ UNCHANGED << page, ikTarget, smoothAngles, desiredAngles, prevAngles,
                    hasBlock, mode, autoPhase, resetKey, waypoints, replayIndex,
                    telemetryData, frameCount, blockPositions, blockPosRef,
                    position, velocityY >>

\* the AUTO PICK button: onClick={() => setMode('AUTO_PICK')}, disabled
\* unless the mode is MANUAL
autoPickClick ==
    /\ page = "part_001"
    /\ commands' = commands + 1
    /\ lastOp' = "autoPick"
    /\ mode' = IF mode # "MANUAL" THEN mode ELSE "AUTO_PICK"
    /\ UNCHANGED << page, ikTarget, smoothAngles, desiredAngles, prevAngles,
                    isGripping, attachedBlockId, hasBlock, autoPhase, resetKey,
                    waypoints, replayIndex, telemetryData, frameCount,
                    blockPositions, blockPosRef, position, velocityY >>

\* handleReset, and the Blocks' reset effect that the new resetKey triggers
handleReset ==
    /\ page = "part_001"
    /\ resetKey < MaxResets
    /\ commands' = commands + 1
    /\ lastOp' = "handleReset"
    /\ mode' = "MANUAL"
    /\ autoPhase' = "IDLE"
    /\ isGripping' = FALSE
    /\ attachedBlockId' = 0
    /\ ikTarget' = InitialTarget
    /\ waypoints' = << >>
    /\ resetKey' = resetKey + 1
    /\ position' = [i \in Blocks |-> INITIAL_BLOCKS[i].initialPos]
    /\ velocityY' = [i \in Blocks |-> 0]
    /\ UNCHANGED << page, smoothAngles, desiredAngles, prevAngles, hasBlock,
                    replayIndex, telemetryData, frameCount, blockPositions,
                    blockPosRef >>

\* the REC button, disabled unless the mode is MANUAL
recordWaypoint ==
    /\ page = "part_001"
    /\ Len(waypoints) < MaxWaypoints
    /\ commands' = commands + 1
    /\ lastOp' = "recordWaypoint"
    /\ waypoints' = IF recDisabled THEN waypoints
                    ELSE recorded(waypoints, ikTarget, isGripping)
    /\ UNCHANGED << page, ikTarget, smoothAngles, desiredAngles, prevAngles,
                    isGripping, attachedBlockId, hasBlock, mode, autoPhase,
                    resetKey, replayIndex, telemetryData, frameCount,
                    blockPositions, blockPosRef, position, velocityY >>

\* the PLAY / STOP button, disabled while the Program is empty
\* a variant that lets an empty Program play
emptyProgram_never(w) == FALSE

\* waypoints.length === 0: the PLAY button is disabled, and toggleReplay
\* starts replay only when waypoints.length > 0
emptyProgram(w) == Len(w) = 0

toggleReplay ==
    /\ page = "part_001"
    /\ commands' = commands + 1
    /\ lastOp' = "toggleReplay"
    /\ IF emptyProgram(waypoints) THEN UNCHANGED << mode, replayIndex >>
       ELSE IF mode = "REPLAY" THEN mode' = "MANUAL" /\ UNCHANGED replayIndex
       ELSE IF ~emptyProgram(waypoints) THEN mode' = "REPLAY" /\ replayIndex' = 0
       ELSE UNCHANGED << mode, replayIndex >>
    /\ UNCHANGED << page, ikTarget, smoothAngles, desiredAngles, prevAngles,
                    isGripping, attachedBlockId, hasBlock, autoPhase, resetKey,
                    waypoints, telemetryData, frameCount, blockPositions,
                    blockPosRef, position, velocityY >>

\* ------------------------------------------------- part_000: render loop
\* what the AUTO SEQUENCE branch of the frame sets
autoSequence0(delta, blockPos) ==
    LET st    == phaseStep(autoPhase, ikTarget, blockPos, 0)
        moved == moveTowards(ikTarget, st.dest, autoSpeed(delta))
    IN [ikTarget      |-> moved,
        desiredAngles |-> solutionOr(moved, desiredAngles),
        isGripping    |-> gripAfter(st.grip, isGripping),
        hasBlock      |-> CASE st.grip = "attach" -> TRUE
                            [] st.grip = "release" -> FALSE
                            [] OTHER -> hasBlock,
        autoPhase     |-> st.next]

idle0 ==
    [ikTarget |-> ikTarget, desiredAngles |-> desiredAngles,
     isGripping |-> isGripping, hasBlock |-> hasBlock, autoPhase |-> autoPhase]

\* one frame of part_000: the Block's useFrame, then RobotController's
useFrame0(delta) ==
    /\ page = "part_000"
    /\ LET targetPosition == Vec(ikTarget.x, ikTarget.y - gripOffset, ikTarget.z)
           blk == blockStep(position[1], velocityY[1], hasBlock, targetPosition)
           newAngles == lerpAngles(smoothAngles, desiredAngles)
           count == frameCount + 1
           sample == [time     |-> count,
                      velocity |-> shoulderVelocity(newAngles.shoulder,
                                                    prevAngles.shoulder, delta),
                      torque   |-> motorTorque(newAngles.shoulder, hasBlock)]
           set == IF autoPhase # "IDLE" THEN autoSequence0(delta, blk.pos) ELSE idle0
       IN /\ position' = [position EXCEPT ![1] = blk.pos]
          /\ velocityY' = [velocityY EXCEPT ![1] = blk.vel]
          /\ blockPosRef' = blk.pos
          /\ smoothAngles' = newAngles
          /\ prevAngles' = newAngles
          /\ frameCount' = count
          /\ telemetryData' = IF sampled(count)
                              THEN pushSample(telemetryData, sample, TelemetryCapacity0)
                              ELSE telemetryData
          /\ ikTarget' = set.ikTarget
          /\ desiredAngles' = set.desiredAngles
          /\ isGripping' = set.isGripping
          /\ hasBlock' = set.hasBlock
          /\ autoPhase' = set.autoPhase
    /\ lastOp' = "useFrame"
    /\ UNCHANGED commands
    /\ UNCHANGED << page, attachedBlockId, mode, resetKey, waypoints, replayIndex,
                    blockPositions >>

\* ---------------------------------------------- part_000: operator commands
\* TargetControl is rendered while autoPhase is IDLE only
handleTargetMove0(newPos) ==
    /\ page = "part_000"
    /\ commands' = commands + 1
    /\ lastOp' = "handleTargetMove"
    /\ IF targetControlShown
       THEN /\ ikTarget' = newPos
            /\ desiredAngles' = solutionOr(newPos, desiredAngles)
       ELSE UNCHANGED << ikTarget, desiredAngles >>
    /\ UNCHANGED << page, smoothAngles, prevAngles, isGripping, attachedBlockId,
                    hasBlock, mode, autoPhase, resetKey, waypoints, replayIndex,
                    telemetryData, frameCount, blockPositions, blockPosRef,
                    position, velocityY >>

\* a variant in which the gripper button is never disabled
isAuto_never == FALSE

\* isAuto = autoPhase !== 'IDLE', passed to the control panel
isAuto == autoPhase # "IDLE"

\* the gripper button, disabled while the sequence runs
toggleGripper0 ==
    /\ page = "part_000"
    /\ commands' = commands + 1
    /\ lastOp' = "toggleGripper"
    /\ IF isAuto THEN UNCHANGED << hasBlock, isGripping >>
       ELSE IF holding(hasBlock, isGripping)
       THEN hasBlock' = FALSE /\ isGripping' = FALSE
       ELSE /\ isGripping' = TRUE
            /\ hasBlock' = closerThan(ikTarget, blockPosRef, captureRadius)
    /\ UNCHANGED << page, ikTarget, smoothAngles, desiredAngles, prevAngles,
                    attachedBlockId, mode, autoPhase, resetKey, waypoints,
                    replayIndex, telemetryData, frameCount, blockPositions,
                    blockPosRef, position, velocityY >>

\* a variant in which the AUTO SEQ button is never disabled
autoSeqDisabled_never == FALSE

\* whether the AUTO SEQ button is disabled
autoSeqDisabled == autoPhase # "IDLE" \/ hasBlock

\* the AUTO SEQ button and its handler startAutoSequence
startAutoSequence ==
    /\ page = "part_000"
    /\ commands' = commands + 1
    /\ lastOp' = "startAutoSequence"
    /\ autoPhase' = IF autoSeqDisabled \/ hasBlock THEN autoPhase ELSE "APPROACH"
    /\ UNCHANGED << page, ikTarget, smoothAngles, desiredAngles, prevAngles,
                    isGripping, attachedBlockId, hasBlock, mode, resetKey,
                    waypoints, replayIndex, telemetryData, frameCount,
                    blockPositions, blockPosRef, position, velocityY >>

\* ------------------------------------------------------------ specification
\* the operator has commands left; and is within the first frames of a run
mayCommand == commands < MaxCommands

inWindow == mayCommand /\ frameCount < CommandWindow

\* every interleaving of at most MaxCommands operator commands with at most
\* MaxFrames frames of the render loop, on either page
Next ==
    \/ mayCommand /\ \E p \in ManualTargets : handleTargetMove(p)
    \/ mayCommand /\ toggleGripper
    \/ mayCommand /\ autoPickClick
    \/ mayCommand /\ handleReset
    \/ mayCommand /\ recordWaypoint
    \/ mayCommand /\ toggleReplay
    \/ mayCommand /\ \E p \in ManualTargets : handleTargetMove0(p)
    \/ mayCommand /\ toggleGripper0
    \/ mayCommand /\ startAutoSequence
    \/ frameCount < MaxFrames /\ \E delta \in Deltas : useFrame(delta)
    \/ frameCount < MaxFrames /\ \E delta \in Deltas : useFrame0(delta)

Spec == Init /\ [][Next]_vars

\* long runs: the operator gives the commands within the first CommandWindow
\* frames, then the render loop runs for up to MaxRunFrames frames
NextRun ==
    \/ inWindow /\ \E p \in ManualTargets : handleTargetMove(p)
    \/ inWindow /\ toggleGripper
    \/ inWindow /\ autoPickClick
    \/ inWindow /\ \E p \in ManualTargets : handleTargetMove0(p)
    \/ inWindow /\ toggleGripper0
    \/ inWindow /\ startAutoSequence
    \/ frameCount < MaxRunFrames /\ \E delta \in Deltas : useFrame(delta)
    \/ frameCount < MaxRunFrames /\ \E delta \in Deltas : useFrame0(delta)

SpecRun == Init /\ [][NextRun]_vars

\* replay runs on part_001: the operator moves, grips, records and starts
\* replay within the first CommandWindow frames; the render loop then runs for
\* up to MaxReplayFrames frames
InitReplay == Init /\ page = "part_001"

NextReplay ==
    \/ inWindow /\ \E p \in ManualTargets : handleTargetMove(p)
    \/ inWindow /\ toggleGripper
    \/ inWindow /\ recordWaypoint
    \/ inWindow /\ toggleReplay
    \/ frameCount < MaxReplayFrames /\ \E delta \in Deltas : useFrame(delta)

SpecReplay == InitReplay /\ [][NextReplay]_vars

\* the same runs over the two targets around block 1, with the fairness of the
\* render loop: requestAnimationFrame calls useFrame again and again. A step
\* of NextFair advances frameCount exactly when it is a frame, so the fairness
\* of the frames is stated on nextFrame
NearTargets == {p \in ManualTargets : p.z = 4 * Unit}

nextFrame == frameCount < MaxFairFrames /\ frameCount' = frameCount + 1

NextFair ==
    \/ inWindow /\ \E p \in NearTargets : handleTargetMove(p)
    \/ inWindow /\ recordWaypoint
    \/ inWindow /\ toggleReplay
    \/ frameCount < MaxFairFrames /\ \E delta \in Deltas : useFrame(delta)

SpecFair == InitReplay /\ [][NextFair]_vars /\ WF_frameCount(nextFrame)

\* teaching sessions on part_001: more commands, over the two targets beside
\* the blocks, with a few frames in between
TeachTargets == {p \in ManualTargets : p.y = Unit}

mayTeach == commands < MaxTeachCommands

NextTeach ==
    \/ mayTeach /\ \E p \in TeachTargets : handleTargetMove(p)
    \/ mayTeach /\ toggleGripper
    \/ mayTeach /\ handleReset
    \/ mayTeach /\ recordWaypoint
    \/ mayTeach /\ toggleReplay
    \/ frameCount < MaxTeachFrames /\ \E delta \in Deltas : useFrame(delta)

SpecTeach == InitReplay /\ [][NextTeach]_vars

\* ------------------------------------------------ the solver on its own
\* Target moves only, over targets inside, on and beyond the reach limit
MaxSolves == 3

IKTargets ==
    { Vec(0, Unit, 3 * Unit),                          \* (0, 1, 3)
      Vec(0, Unit, 10 * Unit),                         \* (0, 1, 10)
      Vec(0, Unit, (11 * Unit) \div 2),                \* h = 5.5 in front
      Vec(0, Unit, (11 * Unit) \div 2 + 1),            \* just beyond it
      Vec((33 * Unit) \div 10, Unit, (44 * Unit) \div 10), \* h = 5.5 to the side
      Vec(0, (13 * Unit) \div 2, 0),                   \* h = 5.5 straight up
      Vec(0, (13 * Unit) \div 2 + 1, 0),               \* just above it
      Vec(3 * Unit, Unit, 0),                          \* on the x axis
      Vec(-3 * Unit, 2 * Unit, -3 * Unit),             \* behind
      Vec(4 * Unit, 5 * Unit, 4 * Unit),               \* out of reach
      Vec(0, Unit, (3 * Unit) \div 10),                \* closer than L2 - L3
      Vec(0, Unit, Unit \div 2),                       \* h = L2 - L3 = 0.5
      Vec(Unit, Unit \div 2, -2 * Unit),               \* below the shoulder
      Vec(-2 * Unit, 3 * Unit, Unit),                  \* above it, to the left
      Vec(0, Unit, 0),                                 \* the shoulder pivot
      Vec(2 * Unit, 2 * Unit, 2 * Unit) }              \* the initial Target

maySolve == commands < MaxSolves

NextIK ==
    \/ maySolve /\ \E p \in IKTargets : handleTargetMove(p)
    \/ maySolve /\ \E p \in IKTargets : handleTargetMove0(p)

SpecIK == Init /\ [][NextIK]_vars

\* ------------------------------------------- frames of any elapsed time
\* the render loop with frame times of 0 s (two frames on one clock reading)
\* and 1/60 s, after at most MaxTickCommands early Target moves
MaxTickFrames == 10
MaxTickCommands == 2

TickDeltas == {0} \cup Deltas

mayTick == commands < MaxTickCommands /\ frameCount < CommandWindow

NextTick ==
    \/ mayTick /\ \E p \in ManualTargets : handleTargetMove(p)
    \/ mayTick /\ \E p \in ManualTargets : handleTargetMove0(p)
    \/ frameCount < MaxTickFrames /\ \E delta \in TickDeltas : useFrame(delta)
    \/ frameCount < MaxTickFrames /\ \E delta \in TickDeltas : useFrame0(delta)

SpecTick == Init /\ [][NextTick]_vars

\* ------------------------------------------------------- lift and drop
\* the operator moves the Target between the two points around block 1 and
\* works the gripper within the first FallWindow frames; the render loop then
\* runs on, with the fairness of requestAnimationFrame, for up to MaxFallFrames
\* frames
MaxFallFrames == 20
MaxFallCommands == 4
FallWindow == 3

mayLift == commands < MaxFallCommands /\ frameCount < FallWindow

fallFrame == frameCount < MaxFallFrames /\ frameCount' = frameCount + 1

NextFall ==
    \/ mayLift /\ \E p \in NearTargets : handleTargetMove(p)
    \/ mayLift /\ toggleGripper
    \/ mayLift /\ \E p \in NearTargets : handleTargetMove0(p)
    \/ mayLift /\ toggleGripper0
    \/ frameCount < MaxFallFrames /\ \E delta \in Deltas : useFrame(delta)
    \/ frameCount < MaxFallFrames /\ \E delta \in Deltas : useFrame0(delta)

SpecFall == Init /\ [][NextFall]_vars /\ WF_frameCount(fallFrame)

\* ------------------------------------------- clicks during the sequence
\* long runs in which the operator may also click between frames later on:
\* within the first CommandWindow frames and then after every ClickEvery-th
\* frame, up to MaxCarryCommands commands in all
MaxCarryFrames == 160
MaxCarryCommands == 3
ClickEvery == 10

mayClick ==
    /\ commands < MaxCarryCommands
    /\ (frameCount < CommandWindow \/ frameCount % ClickEvery = 0)

NextCarry ==
    \/ mayClick /\ \E p \in NearTargets : handleTargetMove(p)
    \/ mayClick /\ toggleGripper
    \/ mayClick /\ autoPickClick
    \/ mayClick /\ handleReset
    \/ mayClick /\ \E p \in NearTargets : handleTargetMove0(p)
    \/ mayClick /\ toggleGripper0
    \/ mayClick /\ startAutoSequence
    \/ frameCount < MaxCarryFrames /\ \E delta \in Deltas : useFrame(delta)
    \/ frameCount < MaxCarryFrames /\ \E delta \in Deltas : useFrame0(delta)

SpecCarry == Init /\ [][NextCarry]_vars

\* ---------------------------------------------------------- slow frames
\* the sequence and replay on a display that runs at 20 frames per second:
\* every frame has the elapsed time 1/20 s, so the autonomous step is 0.3 and
\* the replay step 0.2. The commands come within the first CommandWindow
\* frames; the frames have the fairness of requestAnimationFrame
MaxStepFrames == 80
StepLegFrames == 40

StepDeltas == {DeltaDen \div 20}

stepFrame == frameCount < MaxStepFrames /\ frameCount' = frameCount + 1

NextStep ==
    \/ inWindow /\ \E p \in NearTargets : handleTargetMove(p)
    \/ inWindow /\ recordWaypoint
    \/ inWindow /\ toggleReplay
    \/ inWindow /\ \E p \in NearTargets : handleTargetMove0(p)
    \/ inWindow /\ startAutoSequence
    \/ frameCount < MaxStepFrames /\ \E delta \in StepDeltas : useFrame(delta)
    \/ frameCount < MaxStepFrames /\ \E delta \in StepDeltas : useFrame0(delta)

SpecStep == Init /\ [][NextStep]_vars /\ WF_frameCount(stepFrame)

\* -------------------------------------------------------------- properties
\* Block: isAttached = (attachedId === data.id) on part_001, hasBlock on
\* part_000
isAttached(i) ==
    IF page = "part_000" THEN hasBlock
    ELSE attachedBlockId = INITIAL_BLOCKS[i].id

\* whether the autonomous sequence is running
sequenceRunning ==
    IF page = "part_000" THEN autoPhase # "IDLE" ELSE mode = "AUTO_PICK"

\* the commands that start the autonomous sequence
StartOps == {"startAutoSequence", "autoPick"}

\* C1: in every reachable state at most one entity is attached
C1_AtMostOneAttached ==
    Cardinality({i \in BlocksOf(page) : isAttached(i)}) <= 1

\* block 2 of part_001 is attached by the gripper button
C1_BlockTwoGripped ==
    /\ page = "part_001"
    /\ lastOp = "toggleGripper"
    /\ isAttached(2)

\* C2: starting the autonomous sequence from manual mode while an entity is
\* attached is rejected: the phase stays IDLE, the mode stays MANUAL, and
\* Target, grip flag, attached entity and Program are unchanged
C2_StartWhileAttachedRejected ==
    [][ ( /\ lastOp' \in StartOps
          /\ mode = "MANUAL" /\ autoPhase = "IDLE"
          /\ \E i \in BlocksOf(page) : isAttached(i) )
        => ( /\ autoPhase' = "IDLE"
             /\ mode' = "MANUAL"
             /\ UNCHANGED << ikTarget, isGripping, attachedBlockId, hasBlock,
                             waypoints >> ) ]_vars

\* C3, as far as one frame decides it: once the sequence is started, the
\* sequencer has left IDLE after the next frame
C3_StartedSequenceLeavesIdle ==
    (sequenceRunning /\ lastOp = "useFrame") => autoPhase # "IDLE"

\* the phase that follows each phase of a cycle
nextPhase(phase) ==
    CASE phase = "IDLE" -> "APPROACH"
      [] phase = "APPROACH" -> "DESCEND"
      [] phase = "DESCEND" -> "LIFT"
      [] phase = "LIFT" -> "MOVE_TO_ZONE"
      [] phase = "MOVE_TO_ZONE" -> "LOWER_TO_DROP"
      [] phase = "LOWER_TO_DROP" -> "RETRACT"
      [] OTHER -> "IDLE"

\* the sub-target of each phase, for the tracked block at blockPos and the
\* drop zone at (-4, ., zoneZ)
subTarget(phase, blockPos, zoneZ) ==
    CASE phase = "APPROACH" -> Vec(blockPos.x, blockPos.y + 2 * Unit, blockPos.z)
      [] phase = "DESCEND" -> blockPos
      [] phase = "LIFT" -> Vec(blockPos.x, 3 * Unit, blockPos.z)
      [] phase = "MOVE_TO_ZONE" -> Vec(-4 * Unit, 3 * Unit, zoneZ)
      [] phase = "LOWER_TO_DROP" -> Vec(-4 * Unit, (4 * Unit) \div 5, zoneZ)
      [] OTHER -> Vec(0, 3 * Unit, 0)

\* C4: apart from reset, the phase changes only IDLE -> APPROACH on start, or,
\* in a frame, from a phase to the next one of the cycle, and then only if the
\* Target the frame read is strictly closer than 0.1 to that phase's sub-target
C4_PhaseOrder ==
    [][ autoPhase' # autoPhase =>
          \/ lastOp' = "handleReset"
          \/ /\ lastOp' = "startAutoSequence"
             /\ autoPhase = "IDLE" /\ autoPhase' = "APPROACH"
          \/ /\ lastOp' = "useFrame"
             /\ autoPhase # "IDLE"
             /\ autoPhase' = nextPhase(autoPhase)
             /\ IF page = "part_000"
                THEN distanceSq(ikTarget, subTarget(autoPhase, blockPosRef', 0))
                        < (Unit \div 10) * (Unit \div 10)
                ELSE distanceSq(ikTarget,
                                subTarget(autoPhase,
                                          blockPositions'[targetBlockIdForAuto],
                                          2 * Unit))
                        < (Unit \div 10) * (Unit \div 10) ]_vars

\* a cycle of part_000 is complete: the block lies in the drop zone, released,
\* and the sequencer is back in IDLE
C4_CycleComplete ==
    /\ page = "part_000"
    /\ autoPhase = "IDLE"
    /\ lastOp = "useFrame"
    /\ ~hasBlock
    /\ position[1].x = -4 * Unit

\* C5: a frame of the running sequence changes grip and attachment at two
\* transitions only: DESCEND -> LIFT attaches the tracked entity and closes
\* the gripper, LOWER_TO_DROP -> RETRACT detaches and opens it
C5_GripAtTwoTransitions ==
    [][ (lastOp' = "useFrame" /\ sequenceRunning) =>
          IF autoPhase = "DESCEND" /\ autoPhase' = "LIFT"
          THEN /\ isGripping'
               /\ IF page = "part_000" THEN hasBlock'
                  ELSE attachedBlockId' = targetBlockIdForAuto
          ELSE IF autoPhase = "LOWER_TO_DROP" /\ autoPhase' = "RETRACT"
          THEN /\ ~isGripping'
               /\ IF page = "part_000" THEN ~hasBlock' ELSE attachedBlockId' = 0
          ELSE UNCHANGED << isGripping, hasBlock, attachedBlockId >> ]_vars

\* the sequence of part_000 has released the block over the drop zone
C5_ReleasedInZone ==
    /\ page = "part_000"
    /\ autoPhase = "RETRACT"
    /\ ~hasBlock /\ ~isGripping
    /\ position[1].x = -4 * Unit

\* C6: a start command given while the sequence runs changes neither the
\* phase nor the mode, Target, grip flag or attached entity
C6_StartWhileRunningIgnored ==
    [][ (lastOp' \in StartOps /\ sequenceRunning) =>
          UNCHANGED << autoPhase, mode, ikTarget, isGripping, attachedBlockId,
                       hasBlock >> ]_vars

\* AUTO SEQ was clicked while the sequence was in DESCEND
C6_ClickedInDescend ==
    /\ lastOp = "startAutoSequence"
    /\ autoPhase = "DESCEND"

\* C7: the replay index is set to 0 when replay starts and otherwise changes
\* only in a frame of replay mode, from i to (i + 1) mod k, and only if the
\* Target the frame read is strictly closer than 0.1 to waypoint i
C7_ReplayIndexOrder ==
    [][ /\ (mode # "REPLAY" /\ mode' = "REPLAY") => replayIndex' = 0
        /\ (replayIndex' # replayIndex) =>
              \/ mode # "REPLAY" /\ mode' = "REPLAY" /\ lastOp' = "toggleReplay"
              \/ /\ mode = "REPLAY" /\ lastOp' = "useFrame"
                 /\ Len(waypoints) > 0
                 /\ replayIndex' = (replayIndex + 1) % Len(waypoints)
                 /\ distanceSq(ikTarget, waypoints[replayIndex + 1].pos)
                        < (Unit \div 10) * (Unit \div 10) ]_vars

\* replay of two waypoints at different places has wrapped: index 0 again,
\* with the Target on its way from the second waypoint
C7_Wrapped ==
    /\ mode = "REPLAY"
    /\ lastOp = "useFrame"
    /\ Len(waypoints) = 2
    /\ waypoints[1].pos # waypoints[2].pos
    /\ replayIndex = 0
    /\ closerThan(ikTarget, waypoints[2].pos, 2 * threshold)
    /\ frameCount > CommandWindow + 3

\* C8: a frame never ends replay of a non-empty Program, and, the frames left
\* permitting, from every index replay reaches the next one (or the operator
\* stops it)
C8_ReplayProgress ==
    /\ [][ (mode = "REPLAY" /\ Len(waypoints) > 0 /\ lastOp' = "useFrame")
            => mode' = "REPLAY" ]_vars
    /\ \A i \in 0..(MaxWaypoints - 1) :
          ( /\ mode = "REPLAY" /\ Len(waypoints) > 1
            /\ replayIndex = i
            /\ frameCount + LegFrames <= MaxFairFrames )
          ~> (mode # "REPLAY" \/ replayIndex = (i + 1) % Len(waypoints))

\* replay of two waypoints at different places is at index 1 after more
\* frames than two legs take: it has reached the first waypoint a second time
C8_SecondRound ==
    /\ mode = "REPLAY"
    /\ lastOp = "useFrame"
    /\ Len(waypoints) = 2
    /\ waypoints[1].pos # waypoints[2].pos
    /\ replayIndex = 1
    /\ frameCount > 2 * LegFrames + CommandWindow

capacityOf(pg) ==
    IF pg = "part_000" THEN TelemetryCapacity0 ELSE TelemetryCapacity

\* C10: the telemetry history holds the most recent min(n, capacity) of the
\* n samples produced so far, in production order; an append keeps every
\* older sample except, at capacity, the oldest
C10_TelemetryFifo ==
    /\ [] LET n == frameCount \div SampleEvery
              len == Len(telemetryData)
          IN /\ len <= capacityOf(page)
             /\ len = IF n < capacityOf(page) THEN n ELSE capacityOf(page)
             /\ \A k \in 1..len :
                   telemetryData[k].time = SampleEvery * (n - len + k)
    /\ [][ telemetryData' # telemetryData =>
             LET kept == IF Len(telemetryData) = capacityOf(page)
                         THEN Tail(telemetryData) ELSE telemetryData
             IN /\ Len(telemetryData') = Len(kept) + 1
                /\ SubSeq(telemetryData', 1, Len(kept)) = kept
                /\ telemetryData'[Len(kept) + 1].time = frameCount' ]_vars

\* the full history of part_001 has evicted its oldest sample
C10_Evicted ==
    /\ page = "part_001"
    /\ Len(telemetryData) = TelemetryCapacity
    /\ telemetryData[1].time > SampleEvery

\* C11: right after reset every component of the state has its initial
\* value, the angles, the replay index, the telemetry history and the frame
\* counter included
C11_ResetRestoresInitialState ==
    lastOp = "handleReset" =>
        /\ mode = "MANUAL" /\ autoPhase = "IDLE"
        /\ ~isGripping /\ attachedBlockId = 0
        /\ ikTarget = InitialTarget
        /\ waypoints = << >>
        /\ \A i \in Blocks : /\ position[i] = INITIAL_BLOCKS[i].initialPos
                             /\ velocityY[i] = 0
        /\ desiredAngles = ZeroAngles
        /\ smoothAngles = ZeroAngles
        /\ replayIndex = 0
        /\ telemetryData = << >>
        /\ frameCount = 0

\* whether a click on the gripper button engages (grabs)
engages ==
    IF page = "part_000" THEN autoPhase = "IDLE" /\ ~hasBlock
    ELSE attachedBlockId = 0

\* whether block i is one of the blocks nearest to the Target
nearest(i) ==
    \A j \in BlocksOf(page) :
        distanceSq(ikTarget, position[i]) <= distanceSq(ikTarget, position[j])

\* whether some block lies strictly within the capture radius of the Target
inReach ==
    \E i \in BlocksOf(page) : closerThan(ikTarget, position[i], (3 * Unit) \div 2)

\* C12: a grab closes the gripper; it attaches a block if and only if the
\* nearest block is strictly closer to the Target than 1.5, and then it
\* attaches a nearest one
C12_EngageAttachesNearest ==
    [][ (lastOp' = "toggleGripper" /\ engages) =>
          /\ isGripping'
          /\ IF inReach
             THEN \E i \in BlocksOf(page) : nearest(i) /\ isAttached(i)'
             ELSE \A i \in BlocksOf(page) : ~isAttached(i)' ]_vars

\* whether the gripper button is enabled
gripperEnabled == page = "part_000" => autoPhase = "IDLE"

\* C13: the gripper button releases when a block is attached (afterwards
\* nothing is attached and the gripper is open) and grabs otherwise, so a
\* click during an empty grasp leaves the gripper closed
C13_ToggleReleasesOrEngages ==
    [][ (lastOp' = "toggleGripper" /\ gripperEnabled) =>
          IF \E i \in BlocksOf(page) : isAttached(i)
          THEN /\ ~isGripping'
               /\ \A i \in BlocksOf(page) : ~isAttached(i)'
          ELSE isGripping' ]_vars

\* the gripper button was clicked during an empty grasp: the waypoint was
\* recorded with the gripper closed before any frame had published a block
C13_ToggledEmptyGrasp ==
    /\ page = "part_001"
    /\ lastOp = "toggleGripper"
    /\ frameCount = 0
    /\ Len(waypoints) = 1 /\ waypoints[1].grip
    /\ isGripping
    /\ attachedBlockId = 0

\* C14: in the frame in which replay reaches waypoint i the gripper takes the
\* waypoint's recorded grip: if it differed, a grip of true grabs the block
\* nearest to the Target the frame read (if one is strictly within 1.5) and a
\* grip of false releases; if it was equal, grip and attachment stay
C14_ReplayGripFollowsWaypoint ==
    [][ ( /\ lastOp' = "useFrame"
          /\ mode = "REPLAY" /\ Len(waypoints) > 0
          /\ distanceSq(ikTarget, waypoints[replayIndex + 1].pos)
                < (Unit \div 10) * (Unit \div 10) )
        => LET wp == waypoints[replayIndex + 1]
               near(i) == distanceSq(ikTarget, position'[i])
                             < ((3 * Unit) \div 2) * ((3 * Unit) \div 2)
           IN /\ isGripping' = wp.grip
              /\ IF wp.grip = isGripping THEN UNCHANGED attachedBlockId
                 ELSE IF ~wp.grip THEN attachedBlockId' = 0
                 ELSE IF \E i \in Blocks : near(i)
                 THEN \E i \in Blocks :
                         /\ attachedBlockId' = INITIAL_BLOCKS[i].id
                         /\ \A j \in Blocks :
                               distanceSq(ikTarget, position'[i])
                                  <= distanceSq(ikTarget, position'[j])
                 ELSE UNCHANGED attachedBlockId ]_vars

\* replay of an open and a closed waypoint at one place beside block 2 has
\* passed both: it released at the first and grabbed the block at the second
C14_ReplayGrabbed ==
    /\ mode = "REPLAY"
    /\ lastOp = "useFrame"
    /\ Len(waypoints) = 2
    /\ ~waypoints[1].grip /\ waypoints[2].grip
    /\ waypoints[1].pos = waypoints[2].pos
    /\ closerThan(ikTarget, waypoints[1].pos, threshold)
    /\ replayIndex = 0
    /\ isGripping
    /\ attachedBlockId = 2

\* every variable but the record of the last command
simulation ==
    << page, ikTarget, smoothAngles, desiredAngles, prevAngles, isGripping,
       attachedBlockId, hasBlock, mode, autoPhase, resetKey, waypoints,
       replayIndex, telemetryData, frameCount, blockPositions, blockPosRef,
       position, velocityY >>

\* C15: REC clicked while the autonomous sequence or replay is active changes
\* neither the Program nor anything else
C15_RecordRejectedOutsideManual ==
    [][ (lastOp' = "recordWaypoint" /\ mode \in {"AUTO_PICK", "REPLAY"})
        => UNCHANGED simulation ]_vars

\* REC was clicked during replay
C15_RecClickedInReplay ==
    /\ lastOp = "recordWaypoint"
    /\ mode = "REPLAY"
    /\ Len(waypoints) > 0

\* C16: the Program changes only by recordWaypoint, which appends the current
\* Target and grip flag after the recorded waypoints, or by reset, which
\* empties it
C16_ProgramAppendOrClear ==
    [][ waypoints' # waypoints =>
          \/ /\ lastOp' = "recordWaypoint"
             /\ Len(waypoints') = Len(waypoints) + 1
             /\ SubSeq(waypoints', 1, Len(waypoints)) = waypoints
             /\ waypoints'[Len(waypoints')] = [pos |-> ikTarget, grip |-> isGripping]
          \/ /\ lastOp' = "handleReset"
             /\ waypoints' = << >> ]_vars

\* replay has moved the Target away from both recorded waypoints, which are
\* still in place
C16_KeptDuringReplay ==
    /\ mode = "REPLAY"
    /\ lastOp = "useFrame"
    /\ Len(waypoints) = 2
    /\ waypoints[1].pos = InitialTarget
    /\ waypoints[2].pos \in ManualTargets
    /\ ikTarget # waypoints[1].pos /\ ikTarget # waypoints[2].pos

\* C17: replaying an empty Program does nothing: toggleReplay with an empty
\* Program leaves the mode (and everything else) as it is, replay mode never
\* coexists with an empty Program, and a frame that found replay mode with an
\* empty Program would only set the mode to manual
C17_EmptyProgramReplayNoOp ==
    /\ [](mode = "REPLAY" => Len(waypoints) > 0)
    /\ [][ (lastOp' = "toggleReplay" /\ Len(waypoints) = 0)
           => (mode' # "REPLAY" /\ UNCHANGED simulation) ]_vars
    /\ [][ (lastOp' = "useFrame" /\ mode = "REPLAY" /\ Len(waypoints) = 0)
           => /\ mode' = "MANUAL"
              /\ UNCHANGED << ikTarget, isGripping, attachedBlockId, replayIndex >> ]_vars

\* PLAY was clicked with nothing recorded, after the Target had been moved
C17_PlayedEmptyProgram ==
    /\ lastOp = "toggleReplay"
    /\ Len(waypoints) = 0
    /\ mode = "MANUAL"
    /\ ikTarget # InitialTarget

\* an operator command takes the controller out of replay or out of the
\* autonomous sequence, back to manual mode
aborts ==
    /\ lastOp' # "useFrame"
    /\ mode \in {"AUTO_PICK", "REPLAY"}
    /\ mode' = "MANUAL"

\* C18: aborting replay or the autonomous sequence back to manual mode keeps
\* the grip flag, the attached block, the Target, the Program and the block
\* positions as they were
C18_AbortPreservesProgress ==
    [][ aborts => UNCHANGED << isGripping, attachedBlockId, ikTarget,
                               waypoints, position >> ]_vars

\* the frame moves the Target for the sequencer
sequencerDrives ==
    IF page = "part_000" THEN autoPhase # "IDLE"
    ELSE mode = "AUTO_PICK" /\ autoPhase # "IDLE"
\* the frame moves the Target for the replayer
replayerDrives == mode = "REPLAY"

\* C19: one mode is active in every state; the sequencer phase is non-IDLE
\* only in autonomous mode, a frame moves the Target for at most one of the
\* sequencer and the replayer, the replay index changes in a frame only in
\* replay mode, and a manual Target move is accepted only in manual mode
C19_OneModeAtATime ==
    /\ [](mode \in {"MANUAL", "AUTO_PICK", "REPLAY"})
    /\ [](page = "part_001" /\ autoPhase # "IDLE" => mode = "AUTO_PICK")
    /\ [](~(sequencerDrives /\ replayerDrives))
    /\ [][ (lastOp' = "useFrame" /\ ikTarget' # ikTarget)
           => (sequencerDrives \/ replayerDrives) ]_vars
    /\ [][ (lastOp' = "useFrame" /\ replayIndex' # replayIndex)
           => mode = "REPLAY" ]_vars
    /\ [][ (lastOp' = "handleTargetMove" /\ ikTarget' # ikTarget)
           => (mode = "MANUAL" /\ autoPhase = "IDLE") ]_vars

\* the Target control was used during replay, after replay had run a frame
C19_MoveRefusedInReplay ==
    /\ lastOp = "handleTargetMove"
    /\ mode = "REPLAY"
    /\ autoPhase = "IDLE"
    /\ frameCount > 0

defined(angles) ==
    angles.base # NaN /\ angles.shoulder # NaN /\ angles.elbow # NaN

\* C21: a Target move to the shoulder pivot (0, L1, 0), where h = 0, leaves
\* the commanded angles as they were, and they are never undefined
C21_DegenerateTargetRejected ==
    [][ (lastOp' = "handleTargetMove" /\ ikTarget' = Vec(0, L1, 0))
        => (desiredAngles' = desiredAngles /\ defined(desiredAngles')) ]_vars

\* C22: every sample in the telemetry history has a numeric velocity, also
\* when it was taken on a frame whose elapsed time is 0
C22_VelocityWellDefined ==
    \A i \in DOMAIN telemetryData :
        telemetryData[i].velocity \notin {NaN, Infinity}

\* the frame counts stored in the history
sampleTimes == [i \in DOMAIN telemetryData |-> telemetryData[i].time]

\* C23: a frame appends a telemetry sample exactly when its 1-based count is a
\* multiple of 5, whatever the mode; any other step leaves the history as it
\* is, and the stored frame counts are strictly increasing multiples of 5
C23_SampleEveryFifthFrame ==
    /\ [][ lastOp' = "useFrame" =>
             IF (frameCount + 1) % 5 = 0
             THEN /\ telemetryData' # telemetryData
                  /\ Len(telemetryData') > 0
                  /\ telemetryData'[Len(telemetryData')].time = frameCount + 1
                  /\ \/ telemetryData' = Append(telemetryData, telemetryData'[Len(telemetryData')])
                     \/ telemetryData' = Append(Tail(telemetryData), telemetryData'[Len(telemetryData')])
             ELSE telemetryData' = telemetryData ]_vars
    /\ [][ lastOp' # "useFrame" => telemetryData' = telemetryData ]_vars
    /\ [](\A i \in DOMAIN sampleTimes :
            /\ sampleTimes[i] % 5 = 0
            /\ i > 1 => sampleTimes[i - 1] < sampleTimes[i])

\* thirty or more samples, one per fifth frame from frame 5 on, in a run in
\* which block 1 was carried away from its place
C23_SampledAcrossModes ==
    /\ page = "part_000"
    /\ Len(telemetryData) >= 30
    /\ autoPhase = "IDLE"
    /\ position[1] # INITIAL_BLOCKS[1].initialPos
    /\ sampleTimes[1] = 5
    /\ sampleTimes[Len(telemetryData)] = 5 * Len(telemetryData)

Joints == {"base", "shoulder", "elbow"}

\* for joint j, the smoother's step toward the value v neither overshoots nor
\* moves away: the error v - actual keeps its sign and does not grow, and it
\* shrinks while it is at least 10 / AngleScale rad (below that, a tenth of
\* it is under the model's resolution)
approaches(j, v) ==
    LET before == v - smoothAngles[j]
        after  == v - smoothAngles'[j]
    IN /\ before > 0 => (0 < after /\ after <= before)
       /\ before < 0 => (before <= after /\ after < 0)
       /\ before = 0 => after = 0
       /\ before >= 10 => after < before
       /\ before <= -10 => after > before

\* C24: each frame moves every smoothed joint angle toward the desired angle
\* the frame read, without overshoot and without the error growing; with the
\* desired angles held, the error shrinks monotonically from frame to frame
C24_SmootherMonotone ==
    [][ (lastOp' = "useFrame" /\ defined(desiredAngles) /\ defined(smoothAngles))
        => \A j \in Joints : approaches(j, desiredAngles[j]) ]_vars

\* after a Target move the shoulder has come to within 0.01 rad of its
\* desired angle, which is not 0
C24_NearlyConverged ==
    /\ lastOp = "useFrame"
    /\ mode = "MANUAL" /\ autoPhase = "IDLE"
    /\ ikTarget = Vec(4 * Unit, Unit, -2 * Unit)
    /\ desiredAngles = solveIK(4 * Unit, Unit, -2 * Unit)
    /\ Abs(desiredAngles.shoulder) > 1000
    /\ smoothAngles.shoulder # desiredAngles.shoulder
    /\ Abs(desiredAngles.shoulder - smoothAngles.shoulder) < 100

\* the tolerance of the round trip: 0.05
Tolerance == Unit \div 20

\* the arm's end effector is within Tolerance of p on every axis
reproduces(angles, p) ==
    /\ defined(angles)
    /\ Abs(forward(angles).x - p.x) <= Tolerance
    /\ Abs(forward(angles).y - p.y) <= Tolerance
    /\ Abs(forward(angles).z - p.z) <= Tolerance

\* C25: after a Target move for which the solver did not answer Unreachable,
\* the arm drawn with the stored angles has its end effector at the Target,
\* within the tolerance
C25_ForwardReproducesTarget ==
    (lastOp = "handleTargetMove"
        /\ hSq(ikTarget.x, ikTarget.y, ikTarget.z) > 0
        /\ solveIK(ikTarget.x, ikTarget.y, ikTarget.z) # Null)
    => reproduces(desiredAngles, ikTarget)

\* block i lies on the floor, at rest
resting(i) == position[i].y = floorY /\ velocityY[i] = 0

\* C26: in a frame, a block that is not attached and is above the floor gets
\* its vertical velocity lowered by 0.02 and moves by the new velocity, or
\* lands; a block that is not attached is never below the floor after the
\* frame; a resting block stays at rest; and a block above the floor comes to
\* rest on the floor unless it is attached again
C26_FallsAndRests ==
    /\ [][ lastOp' = "useFrame" =>
             \A i \in BlocksOf(page) :
                ~isAttached(i) =>
                   /\ position'[i].y >= floorY
                   /\ position[i].y > floorY =>
                        \/ /\ velocityY'[i] = velocityY[i] - gravity
                           /\ position'[i].y = position[i].y + velocityY'[i]
                        \/ /\ position[i].y + velocityY[i] - gravity <= floorY
                           /\ resting(i)'
                   /\ resting(i) => resting(i)' ]_vars
    /\ \A i \in Blocks :
          (i \in BlocksOf(page) /\ ~isAttached(i) /\ position[i].y > floorY)
             ~> (isAttached(i) \/ resting(i))

\* block 1 was released high above the floor, has been falling for some
\* frames and is still in the air
C26_InFreeFall ==
    /\ lastOp = "useFrame"
    /\ ~isAttached(1)
    /\ position[1].y > Unit
    /\ velocityY[1] <= -3 * gravity

\* where an attached block is put: the Target the frame read, lowered by 0.75
carried == Vec(ikTarget.x, ikTarget.y - (3 * Unit) \div 4, ikTarget.z)

\* C27: after every frame, the attached block is at the Target minus the
\* vertical offset 0.75 and has no vertical velocity
C27_AttachedTracksTarget ==
    lastOp = "useFrame" =>
        \A i \in BlocksOf(page) :
            isAttached(i) => (position[i] = carried /\ velocityY[i] = 0)

\* some block is attached
carrying == IF page = "part_000" THEN hasBlock ELSE attachedBlockId # 0

\* C28: whenever a block is attached the grip flag is true
C28_AttachedImpliesGripping ==
    carrying => isGripping

\* the sequence has closed the gripper on the block and the frames have
\* lifted the block off the floor
C28_CarriedByFrame ==
    /\ lastOp = "useFrame"
    /\ autoPhase = "LIFT"
    /\ carrying
    /\ isGripping
    /\ position[1].y > Unit

\* C29: in replay mode the Program is not empty and the replay index is the
\* index of one of its waypoints
C29_ReplayIndexInProgram ==
    mode = "REPLAY" =>
        /\ Len(waypoints) > 0
        /\ 0 <= replayIndex
        /\ replayIndex < Len(waypoints)

\* replay of a two-waypoint Program has reached its last waypoint's index
C29_AtLastWaypoint ==
    /\ mode = "REPLAY"
    /\ lastOp = "useFrame"
    /\ Len(waypoints) = 2
    /\ replayIndex = 1

\* the phases in which the sequence carries the block
CarryPhases == {"LIFT", "MOVE_TO_ZONE", "LOWER_TO_DROP"}

\* C30: while the sequencer phase is LIFT, MOVE_TO_ZONE or LOWER_TO_DROP a
\* block is attached and the grip flag is true, and an operator command given
\* in these phases changes neither
C30_CarryNotInterrupted ==
    /\ [](autoPhase \in CarryPhases => (carrying /\ isGripping))
    /\ [][ (autoPhase \in CarryPhases /\ lastOp' # "useFrame")
           => UNCHANGED << autoPhase, hasBlock, attachedBlockId, isGripping >> ]_vars

\* the gripper button was clicked while the block was carried to the zone
C30_ClickedInCarry ==
    /\ lastOp = "toggleGripper"
    /\ autoPhase = "MOVE_TO_ZONE"
    /\ carrying
    /\ isGripping

\* c / AngleScale is a cosine: it lies in [-1, 1]
isCosine(c) == c # NaN /\ c # Infinity /\ -AngleScale <= c /\ c <= AngleScale

\* C32: for a Target with h <= L2 + L3 both law-of-cosines arguments lie in
\* [-1, 1], the solver's result has defined angles, and so have the desired
\* angles the Target move stored
C32_SolverAnglesDefined ==
    (lastOp = "handleTargetMove"
        /\ hSq(ikTarget.x, ikTarget.y, ikTarget.z) <= (L2 + L3) * (L2 + L3))
    => /\ isCosine(cosPhi1(ikTarget.x, ikTarget.y, ikTarget.z))
       /\ isCosine(cosPhi3(ikTarget.x, ikTarget.y, ikTarget.z))
       /\ solveIK(ikTarget.x, ikTarget.y, ikTarget.z) # Null
       /\ defined(solveIK(ikTarget.x, ikTarget.y, ikTarget.z))
       /\ defined(desiredAngles)

\* the frames step the Target toward a sub-target: the sequence runs on
\* part_000, or replay on part_001
stepping ==
    \/ page = "part_000" /\ autoPhase # "IDLE"
    \/ page = "part_001" /\ mode = "REPLAY" /\ Len(waypoints) > 0

\* the sub-target the next frame steps toward
destination ==
    IF page = "part_000" THEN subTarget(autoPhase, blockPosRef, 0)
    ELSE waypoints[replayIndex + 1].pos

\* the Target is strictly closer than 0.1 to the sub-target
arrived ==
    \E from \in {ikTarget}, to \in {destination} : closerThan(from, to, threshold)

====
